---- MODULE Spec2Model ----
(***************************************************************************)
(* Model of app.py: a Streamlit script that loads a patient table and a    *)
(* department boundary table, normalises the department names to upper     *)
(* case, and renders one of four pages.  The "Mapas" page filters the      *)
(* patients by diagnosis and gender, groups them by department, left-joins *)
(* the aggregate onto the boundaries, fills the unmatched numeric fields   *)
(* with 0 and serialises the joined table to GeoJSON.                      *)
(*                                                                         *)
(* Representation.                                                         *)
(*   - a table is a sequence of records (one record per row, in row order) *)
(*   - a string that the code inspects character by character (the         *)
(*     department names, through str.upper) is a sequence of characters    *)
(*   - a nullable cell is NaN (the empty tuple) or Val(x) (the 1-tuple)    *)
(*   - a mean is the exact rational sum/count, kept as a reduced fraction  *)
(*     <<numerator, denominator>>; the literal 0 of fillna(0) is <<0, 1>>  *)
(***************************************************************************)
EXTENDS Integers, Sequences, FiniteSets, TLC

(* ------------------------------------------------------------------ *)
(* Bounds of the input files                                           *)
(* ------------------------------------------------------------------ *)
MaxPatients == 2
MaxBoundaries == 2

(* ------------------------------------------------------------------ *)
(* State                                                               *)
(* ------------------------------------------------------------------ *)
VARIABLES
  csv,              \* salud_pacientes.csv, as stored
  shp,              \* the department shapefile, as stored
  pc,               \* "start", "loaded" or "rendered": position in the script
  df, gdf,          \* the loaded tables
  page,             \* the page the sidebar radio returns
  diagnostico_sel,  \* the diagnosis selectbox
  genero_sel,       \* the gender selectbox
  df_filtrado, df_grouped, gdf_merge, geojson,
  previo            \* history: an earlier run of the map page, or NaN

vars == <<csv, shp, pc, df, gdf, page, diagnostico_sel, genero_sel,
          df_filtrado, df_grouped, gdf_merge, geojson, previo>>

files == <<csv, shp>>
tables == <<df, gdf>>
widgets == <<diagnostico_sel, genero_sel>>
derived == <<df_filtrado, df_grouped, gdf_merge, geojson>>

(* ------------------------------------------------------------------ *)
(* Cells                                                               *)
(* ------------------------------------------------------------------ *)
NaN == <<>>
Val(x) == <<x>>
IsNa(c) == c = NaN
Get(c) == c[1]

(* Values the input files draw their cells from. *)
Meta == <<"M", "e", "t", "a">>
META == <<"M", "E", "T", "A">>
CHOCO == <<"C", "H", "O", "C", "O">>
Cauca == <<"C", "a", "u", "c", "a">>
BoundaryNames == {Meta, CHOCO}
PatientDepts == {META, Cauca}
Diagnosticos == {Val("Asma"), Val("Diabetes"), NaN}
Generos == {Val("F"), NaN}

RawPatientRows ==
  { [Departamento |-> d, Diagnostico |-> dg, Genero |-> g] :
      d \in PatientDepts, dg \in Diagnosticos, g \in Generos }

(* The measures of the i-th patient: 30 and 2, 50 and 5, 70 and 8, ... *)
EdadDe(i) == 10 + 20 * i
VisitasDe(i) == 3 * i - 1

(* The CSV files: every row carries its own ID (the row number), age and *)
(* visit frequency.                                                      *)
PatientTables ==
  UNION { { [i \in 1..n |->
               [ID |-> i, Edad |-> EdadDe(i), Frecuencia_Visitas |-> VisitasDe(i)] @@ f[i]] :
            f \in [1..n -> RawPatientRows] } :
          n \in 0..MaxPatients }

(* The shapefiles: every row carries its own geometry (the row number). *)
BoundaryTables ==
  UNION { { [i \in 1..n |-> [dpto_cnmbr |-> f[i], geometry |-> i]] :
            f \in [1..n -> BoundaryNames] } :
          n \in 0..MaxBoundaries }

(* ------------------------------------------------------------------ *)
(* str.upper                                                           *)
(* ------------------------------------------------------------------ *)
Minusculas == <<"a", "b", "c", "d", "e", "f", "g", "h", "i", "j", "k", "l", "m",
                "n", "o", "p", "q", "r", "s", "t", "u", "v", "w", "x", "y", "z">>
Mayusculas == <<"A", "B", "C", "D", "E", "F", "G", "H", "I", "J", "K", "L", "M",
                "N", "O", "P", "Q", "R", "S", "T", "U", "V", "W", "X", "Y", "Z">>

UpperChar(c) ==
  IF \E i \in DOMAIN Minusculas : Minusculas[i] = c
  THEN Mayusculas[CHOOSE i \in DOMAIN Minusculas : Minusculas[i] = c]
  ELSE c

StrUpper(s) == [i \in DOMAIN s |-> UpperChar(s[i])]

(* Code-point order of the characters: upper case before lower case. *)
Alfabeto == Mayusculas \o Minusculas
Code(c) == CHOOSE i \in DOMAIN Alfabeto : Alfabeto[i] = c

RECURSIVE StrLess(_, _)
StrLess(s, t) ==
  IF t = <<>> THEN FALSE
  ELSE IF s = <<>> THEN TRUE
  ELSE IF Head(s) = Head(t) THEN StrLess(Tail(s), Tail(t))
  ELSE Code(Head(s)) < Code(Head(t))

(* ------------------------------------------------------------------ *)
(* Load (module level)                                                 *)
(* ------------------------------------------------------------------ *)
NormalizarDf(t) ==
  [i \in DOMAIN t |-> [t[i] EXCEPT !.Departamento = StrUpper(@)]]

(* Variant: the boundary names are left as stored. *)
NormalizarGdfSin(t) == t

NormalizarGdf(t) ==
  [i \in DOMAIN t |-> [t[i] EXCEPT !.dpto_cnmbr = StrUpper(@)]]

(* ------------------------------------------------------------------ *)
(* Arithmetic of the aggregates                                        *)
(* ------------------------------------------------------------------ *)
RECURSIVE Gcd(_, _)
Gcd(a, b) == IF b = 0 THEN a ELSE Gcd(b, a % b)

Frac(n, d) == LET g == Gcd(n, d) IN <<n \div g, d \div g>>

(* The number n as a fraction; the 0 of fillna(0). *)
Num(n) == Frac(n, 1)
Cero == Num(0)

RECURSIVE Sum(_)
Sum(s) == IF s = <<>> THEN 0 ELSE Head(s) + Sum(Tail(s))

Column(t, c) == [i \in DOMAIN t |-> t[i][c]]

(* Variant: integer division. *)
MeanEntera(s) == Num(Sum(s) \div Len(s))

Mean(s) == Frac(Sum(s), Len(s))

(* Variant: "sum" in place of "count". *)
CountSuma(s) == Num(Sum(s))

(* count: the number of non-null cells; the ID column has no null cell. *)
Count(s) == Num(Len(s))

(* ------------------------------------------------------------------ *)
(* Page "Mapas": widgets                                               *)
(* ------------------------------------------------------------------ *)
Todos == "Todos"

(* col.dropna().unique(): the distinct non-null values of a column. *)
Unicos(t, c) == {Get(t[i][c]) : i \in {j \in DOMAIN t : ~IsNa(t[j][c])}}

(* The choices of a selectbox: ["Todos"] + the distinct values. *)
Opciones(t, c) == {Todos} \cup Unicos(t, c)

(* ------------------------------------------------------------------ *)
(* Page "Mapas": filter, group, join, fill, serialise                  *)
(* ------------------------------------------------------------------ *)
(* Variant: the gender selection is not applied. *)
FiltrarSinGenero(t, d, g) ==
  IF d # Todos THEN SelectSeq(t, LAMBDA r : r.Diagnostico = Val(d)) ELSE t

Filtrar(t, d, g) ==
  LET copia == t
      t1 == IF d # Todos
            THEN SelectSeq(copia, LAMBDA r : r.Diagnostico = Val(d))
            ELSE copia
  IN IF g # Todos
     THEN SelectSeq(t1, LAMBDA r : r.Genero = Val(g))
     ELSE t1

(* The group keys in ascending order (groupby sorts its keys). *)
RECURSIVE SortedKeys(_)
SortedKeys(S) ==
  IF S = {} THEN <<>>
  ELSE LET m == CHOOSE x \in S : \A y \in S \ {x} : StrLess(x, y)
       IN <<m>> \o SortedKeys(S \ {m})

Grupo(t, k) == SelectSeq(t, LAMBDA r : r.Departamento = k)

GroupKeys(t) == {t[i].Departamento : i \in DOMAIN t}

(* Variant: one group per department of the unfiltered table. *)
AgruparTodas(t) ==
  LET keys == SortedKeys(GroupKeys(df))
  IN [i \in DOMAIN keys |->
        LET rows == Grupo(t, keys[i])
        IN [Departamento |-> keys[i],
            Num_Pacientes |-> Count(Column(rows, "ID")),
            Edad |-> IF rows = <<>> THEN Cero ELSE Mean(Column(rows, "Edad")),
            Frecuencia_Visitas |->
              IF rows = <<>> THEN Cero ELSE Mean(Column(rows, "Frecuencia_Visitas"))]]

Agrupar(t) ==
  LET keys == SortedKeys(GroupKeys(t))
  IN [i \in DOMAIN keys |->
        LET rows == Grupo(t, keys[i])
        IN [Departamento |-> keys[i],
            Num_Pacientes |-> Count(Column(rows, "ID")),
            Edad |-> Mean(Column(rows, "Edad")),
            Frecuencia_Visitas |-> Mean(Column(rows, "Frecuencia_Visitas"))]]

(* Variant: how="inner". *)
MergeRowInner(l, right) ==
  LET hits == SelectSeq(right, LAMBDA r : r.Departamento = l.dpto_cnmbr)
  IN [j \in DOMAIN hits |->
        l @@ [Departamento |-> Val(hits[j].Departamento),
              Num_Pacientes |-> Val(hits[j].Num_Pacientes),
              Edad |-> Val(hits[j].Edad),
              Frecuencia_Visitas |-> Val(hits[j].Frecuencia_Visitas)]]

(* The rows a left row contributes to a left join: one per matching right *)
(* row, or one row of missing cells when no right row matches.            *)
MergeRow(l, right) ==
  LET hits == SelectSeq(right, LAMBDA r : r.Departamento = l.dpto_cnmbr)
  IN IF hits = <<>>
     THEN << l @@ [Departamento |-> NaN, Num_Pacientes |-> NaN,
                   Edad |-> NaN, Frecuencia_Visitas |-> NaN] >>
     ELSE [j \in DOMAIN hits |->
             l @@ [Departamento |-> Val(hits[j].Departamento),
                   Num_Pacientes |-> Val(hits[j].Num_Pacientes),
                   Edad |-> Val(hits[j].Edad),
                   Frecuencia_Visitas |-> Val(hits[j].Frecuencia_Visitas)]]

RECURSIVE MergeLeft(_, _)
MergeLeft(left, right) ==
  IF left = <<>> THEN <<>>
  ELSE MergeRow(Head(left), right) \o MergeLeft(Tail(left), right)

FillCell(c) == IF IsNa(c) THEN Val(Cero) ELSE c

(* Variant: only the patient count is filled. *)
FillNaSoloNum(t) ==
  [i \in DOMAIN t |-> [t[i] EXCEPT !.Num_Pacientes = FillCell(@)]]

(* Variant: nothing is filled. *)
FillNaNinguno(t) == t

FillNa(t) ==
  [i \in DOMAIN t |->
     [t[i] EXCEPT !.Num_Pacientes = FillCell(@),
                  !.Edad = FillCell(@),
                  !.Frecuencia_Visitas = FillCell(@)]]

(* GeoDataFrame.to_json: one feature per row, the row's position as id, *)
(* every column but the geometry as a property.                         *)
ToJson(t) ==
  [i \in DOMAIN t |->
     [id |-> i - 1,
      geometry |-> t[i].geometry,
      properties |-> [dpto_cnmbr |-> t[i].dpto_cnmbr,
                      Departamento |-> t[i].Departamento,
                      Num_Pacientes |-> t[i].Num_Pacientes,
                      Edad |-> t[i].Edad,
                      Frecuencia_Visitas |-> t[i].Frecuencia_Visitas]]]

(* A script run starts with no variable bound; the widgets show their *)
(* first choice.                                                      *)
Fresh ==
  /\ pc = "start"
  /\ df = <<>> /\ gdf = <<>>
  /\ page = "Contexto"
  /\ diagnostico_sel = Todos /\ genero_sel = Todos
  /\ df_filtrado = <<>> /\ df_grouped = <<>> /\ gdf_merge = <<>> /\ geojson = <<>>

Init ==
  /\ csv \in PatientTables
  /\ shp \in BoundaryTables
  /\ Fresh
  /\ previo = NaN

(* df = pd.read_csv(...); gdf = gpd.read_file(...); upper-case the names. *)
Load ==
  /\ pc = "start"
  /\ df' = NormalizarDf(csv)
  /\ gdf' = NormalizarGdf(shp)
  /\ pc' = "loaded"
  /\ UNCHANGED <<files, page, widgets, derived, previo>>

(* The pages that only display the patient table: they read df and bind *)
(* no variable that the map page reads.                                 *)
Contexto ==
  /\ pc = "loaded"
  /\ page' = "Contexto"
  /\ pc' = "rendered"
  /\ UNCHANGED <<files, tables, widgets, derived, previo>>

Descriptivos ==
  /\ pc = "loaded"
  /\ page' = "Descriptivos"
  /\ pc' = "rendered"
  /\ UNCHANGED <<files, tables, widgets, derived, previo>>

Graficos ==
  /\ pc = "loaded"
  /\ page' = "Graficos"
  /\ pc' = "rendered"
  /\ UNCHANGED <<files, tables, widgets, derived, previo>>

(* Variant: the filter is applied to df itself. *)
PipelineEnSitio(d, g) ==
  /\ df' = Filtrar(df, d, g)
  /\ df_filtrado' = df'
  /\ df_grouped' = Agrupar(df_filtrado')
  /\ gdf_merge' = FillNa(MergeLeft(gdf, df_grouped'))
  /\ geojson' = ToJson(gdf_merge')
  /\ UNCHANGED <<gdf, files>>

(* Variant: the joined rows come out in an arbitrary order. *)
PipelineOrdenLibre(d, g) ==
  /\ df_filtrado' = Filtrar(df, d, g)
  /\ df_grouped' = Agrupar(df_filtrado')
  /\ \E o \in Permutations(DOMAIN gdf) :
       gdf_merge' = LET m == FillNa(MergeLeft(gdf, df_grouped'))
                    IN [i \in DOMAIN m |-> m[o[i]]]
  /\ geojson' = ToJson(gdf_merge')
  /\ UNCHANGED <<tables, files>>

(* The map page: the pipeline with diagnosis d and gender g selected. *)
Pipeline(d, g) ==
  /\ df_filtrado' = Filtrar(df, d, g)
  /\ df_grouped' = Agrupar(df_filtrado')
  /\ gdf_merge' = FillNa(MergeLeft(gdf, df_grouped'))
  /\ geojson' = ToJson(gdf_merge')
  /\ UNCHANGED <<tables, files>>

Mapas ==
  /\ pc = "loaded"
  /\ page' = "Mapas"
  /\ \E d \in Opciones(df, "Diagnostico"), g \in Opciones(df, "Genero") :
       /\ diagnostico_sel' = d
       /\ genero_sel' = g
       /\ Pipeline(d, g)
  /\ pc' = "rendered"
  /\ UNCHANGED previo

(* A user interaction: Streamlit runs the script again from the top, with *)
(* no variable of the previous run bound.                                 *)
Restart ==
  /\ pc = "rendered"
  /\ pc' = "start"
  /\ df' = <<>> /\ gdf' = <<>>
  /\ page' = "Contexto"
  /\ diagnostico_sel' = Todos /\ genero_sel' = Todos
  /\ df_filtrado' = <<>> /\ df_grouped' = <<>> /\ gdf_merge' = <<>> /\ geojson' = <<>>
  /\ UNCHANGED files

Rerun == Restart /\ UNCHANGED previo

Next == Load \/ Contexto \/ Descriptivos \/ Graficos \/ Mapas \/ Rerun

Spec == Init /\ [][Next]_vars

(* The same program with a history variable: a rerun that follows a map *)
(* page may remember that page's files, selections and results in       *)
(* previo, once; any map page of a run can be the remembered one.       *)
Snapshot ==
  Val([csv |-> csv, shp |-> shp,
       diagnostico_sel |-> diagnostico_sel, genero_sel |-> genero_sel,
       gdf_merge |-> gdf_merge, geojson |-> geojson])

RerunHist ==
  /\ Restart
  /\ previo' \in (IF page = "Mapas" /\ IsNa(previo) THEN {previo, Snapshot} ELSE {previo})

NextHist == Load \/ Contexto \/ Descriptivos \/ Graficos \/ Mapas \/ RerunHist

SpecHist == Init /\ [][NextHist]_vars

(* ------------------------------------------------------------------ *)
(* Properties                                                          *)
(* ------------------------------------------------------------------ *)
(* The map page has been rendered. *)
EnMapa == pc = "rendered" /\ page = "Mapas"

(* Row r passes the selections shown by the two selectboxes. *)
Sel(r) ==
  /\ diagnostico_sel = Todos \/ r.Diagnostico = Val(diagnostico_sel)
  /\ genero_sel = Todos \/ r.Genero = Val(genero_sel)

(* The rows of the patient table that pass the selections and belong to x. *)
Filas(x) == {i \in DOMAIN df : df[i].Departamento = x /\ Sel(df[i])}

Nombres == {df[i].Departamento : i \in DOMAIN df} \cup {gdf[j].dpto_cnmbr : j \in DOMAIN gdf}

EsCero(c) == ~IsNa(c) /\ Get(c) = <<0, 1>>

RECURSIVE SumaCol(_, _)
SumaCol(S, c) ==
  IF S = {} THEN 0
  ELSE LET i == CHOOSE j \in S : TRUE IN df[i][c] + SumaCol(S \ {i}, c)

(* q is the fraction s/n. *)
EsMedia(c, s, n) == ~IsNa(c) /\ Get(c)[2] > 0 /\ Get(c)[1] * n = s * Get(c)[2]

(* C1: on the map page the joined table has as many rows as the boundary   *)
(* table, and every boundary row's geometry is carried by exactly one      *)
(* joined row, which also carries that boundary's name, whether or not a   *)
(* patient matched it.                                                     *)
C1_JoinCompleteness ==
  EnMapa =>
    /\ Len(gdf_merge) = Len(gdf)
    /\ \A b \in DOMAIN gdf :
         /\ Cardinality({j \in DOMAIN gdf_merge :
                           gdf_merge[j].geometry = gdf[b].geometry}) = 1
         /\ \A j \in DOMAIN gdf_merge :
              gdf_merge[j].geometry = gdf[b].geometry
                => gdf_merge[j].dpto_cnmbr = gdf[b].dpto_cnmbr

C1_Witness ==
  /\ EnMapa
  /\ Len(gdf) = 2
  /\ \E a, b \in DOMAIN gdf :
       Filas(gdf[a].dpto_cnmbr) # {} /\ Filas(gdf[b].dpto_cnmbr) = {}

(* C2: every joined row whose boundary name is the department of no       *)
(* filtered patient row has patient count, mean age and mean visit        *)
(* frequency all present and equal to 0.                                  *)
C2_DefaultFill ==
  EnMapa =>
    \A j \in DOMAIN gdf_merge :
      Filas(gdf_merge[j].dpto_cnmbr) = {}
        => /\ EsCero(gdf_merge[j].Num_Pacientes)
           /\ EsCero(gdf_merge[j].Edad)
           /\ EsCero(gdf_merge[j].Frecuencia_Visitas)

C2_Witness ==
  /\ EnMapa
  /\ df_filtrado # <<>>
  /\ \E j \in DOMAIN gdf_merge :
       /\ Filas(gdf_merge[j].dpto_cnmbr) = {}
       /\ \E i \in DOMAIN df : df[i].Departamento = gdf_merge[j].dpto_cnmbr

(* C3: with a diagnosis selected, the grouped aggregate has exactly one   *)
(* row for every department with a patient row of that diagnosis (and of  *)
(* the selected gender, when one is selected), and that row's patient     *)
(* count is the number of those patient rows.                             *)
FilasDiag(x) ==
  {i \in DOMAIN df :
     /\ df[i].Departamento = x
     /\ df[i].Diagnostico = Val(diagnostico_sel)
     /\ genero_sel # Todos => df[i].Genero = Val(genero_sel)}

C3_FilterCorrectness ==
  (EnMapa /\ diagnostico_sel # Todos) =>
    /\ \A k \in DOMAIN df_grouped :
         df_grouped[k].Num_Pacientes
           = <<Cardinality(FilasDiag(df_grouped[k].Departamento)), 1>>
    /\ \A x \in Nombres :
         FilasDiag(x) # {}
           => Cardinality({k \in DOMAIN df_grouped : df_grouped[k].Departamento = x}) = 1

C3_Witness ==
  /\ EnMapa
  /\ diagnostico_sel # Todos
  /\ genero_sel # Todos
  /\ df_grouped # <<>>
  /\ \E i \in DOMAIN df :
       df[i].Diagnostico = Val(diagnostico_sel) /\ df[i].Genero # Val(genero_sel)

(* C4: for every joined row whose department has a filtered patient row,  *)
(* the mean age is the sum of the ages of the filtered rows of that       *)
(* department divided by their number, and likewise the mean visit        *)
(* frequency; two patients of one department aged 30 and 50 with 2 and 5  *)
(* visits give 40 and 7/2 with no filter and 30 and 2 when only the first *)
(* is selected.                                                           *)
C4_MeanAggregates ==
  EnMapa =>
    \A j \in DOMAIN gdf_merge :
      LET F == Filas(gdf_merge[j].dpto_cnmbr)
      IN F # {} =>
           /\ EsMedia(gdf_merge[j].Edad, SumaCol(F, "Edad"), Cardinality(F))
           /\ EsMedia(gdf_merge[j].Frecuencia_Visitas,
                      SumaCol(F, "Frecuencia_Visitas"), Cardinality(F))
           /\ F = {1, 2} => /\ gdf_merge[j].Edad = << <<40, 1>> >>
                            /\ gdf_merge[j].Frecuencia_Visitas = << <<7, 2>> >>
           /\ F = {1} => /\ gdf_merge[j].Edad = << <<30, 1>> >>
                         /\ gdf_merge[j].Frecuencia_Visitas = << <<2, 1>> >>

C4_Witness ==
  /\ EnMapa
  /\ diagnostico_sel = Todos /\ genero_sel = Todos
  /\ \E j \in DOMAIN gdf_merge :
       /\ Filas(gdf_merge[j].dpto_cnmbr) = {1, 2}
       /\ gdf_merge[j].Frecuencia_Visitas = << <<7, 2>> >>

(* C5: a stored boundary name and a stored patient department that differ *)
(* at most in letter case are joined: the boundary's joined row is        *)
(* matched, and its patient count is the number of selected patient rows  *)
(* whose stored department equals the stored boundary name up to case.    *)
MismaLetra(a, b) ==
  a = b \/ \E k \in DOMAIN Minusculas : {a, b} = {Minusculas[k], Mayusculas[k]}

SoloCaja(s, t) == Len(s) = Len(t) /\ \A i \in DOMAIN s : MismaLetra(s[i], t[i])

C5_CaseInsensitive ==
  EnMapa =>
    \A b \in DOMAIN shp :
      LET P == {p \in DOMAIN csv :
                  SoloCaja(shp[b].dpto_cnmbr, csv[p].Departamento) /\ Sel(csv[p])}
      IN P # {} =>
           /\ b \in DOMAIN gdf_merge
           /\ gdf_merge[b].geometry = shp[b].geometry
           /\ ~IsNa(gdf_merge[b].Departamento)
           /\ gdf_merge[b].Num_Pacientes = << <<Cardinality(P), 1>> >>

C5_Witness ==
  /\ EnMapa
  /\ \E b \in DOMAIN shp, p \in DOMAIN csv :
       /\ shp[b].dpto_cnmbr # csv[p].Departamento
       /\ SoloCaja(shp[b].dpto_cnmbr, csv[p].Departamento)
       /\ Sel(csv[p])

(* C6: a map page rendered with the files and the selections of an        *)
(* earlier map page shows the joined table and the GeoJSON document of    *)
(* that earlier page, whatever was rendered in between.                   *)
Repetida ==
  /\ EnMapa
  /\ ~IsNa(previo)
  /\ Get(previo).csv = csv /\ Get(previo).shp = shp
  /\ Get(previo).diagnostico_sel = diagnostico_sel
  /\ Get(previo).genero_sel = genero_sel

C7_SourceImmutability ==
  [][pc = "loaded" => (df' = df /\ gdf' = gdf /\ csv' = csv /\ shp' = shp)]_vars

C7_Witness ==
  /\ EnMapa
  /\ df_filtrado # <<>>
  /\ Len(df_filtrado) < Len(df)
  /\ \E j \in DOMAIN gdf_merge : IsNa(gdf_merge[j].Departamento)
  /\ df = NormalizarDf(csv) /\ gdf = NormalizarGdf(shp)

(* C8: when no loaded patient department equals a loaded boundary name,   *)
(* the map page can still be rendered, and once rendered the joined table *)
(* has one row per boundary, each with patient count, mean age and mean   *)
(* visit frequency 0.                                                     *)
SinCoincidencia ==
  {df[i].Departamento : i \in DOMAIN df} \cap {gdf[j].dpto_cnmbr : j \in DOMAIN gdf} = {}

C8_NoOverlap ==
  /\ (pc = "loaded" /\ SinCoincidencia) => ENABLED Mapas
  /\ (EnMapa /\ SinCoincidencia) =>
       /\ Len(gdf_merge) = Len(gdf)
       /\ \A j \in DOMAIN gdf_merge :
            /\ EsCero(gdf_merge[j].Num_Pacientes)
            /\ EsCero(gdf_merge[j].Edad)
            /\ EsCero(gdf_merge[j].Frecuencia_Visitas)

C8_Witness ==
  /\ EnMapa
  /\ SinCoincidencia
  /\ df_filtrado # <<>>
  /\ Len(gdf_merge) = 2

(* C9: every row of the grouped aggregate has a patient count of at least *)
(* 1, a department with no filtered patient row has no row in the grouped *)
(* aggregate, and a joined row has patient count 0 only if it matched no  *)
(* row of the grouped aggregate.                                          *)
C9_AbsentGroups ==
  EnMapa =>
    /\ \A k \in DOMAIN df_grouped :
         df_grouped[k].Num_Pacientes[1] >= 1 /\ df_grouped[k].Num_Pacientes[2] = 1
    /\ \A x \in Nombres :
         Filas(x) = {} => \A k \in DOMAIN df_grouped : df_grouped[k].Departamento # x
    /\ \A j \in DOMAIN gdf_merge :
         EsCero(gdf_merge[j].Num_Pacientes) => IsNa(gdf_merge[j].Departamento)

C9_Witness ==
  /\ EnMapa
  /\ df_grouped # <<>>
  /\ \E j \in DOMAIN gdf_merge :
       /\ EsCero(gdf_merge[j].Num_Pacientes)
       /\ \E i \in DOMAIN df : df[i].Departamento = gdf_merge[j].dpto_cnmbr

(* C10: when the boundary names are pairwise different, the patient       *)
(* counts of the joined rows add up to the number of filtered patient     *)
(* rows whose department is a boundary name, hence to no more than the    *)
(* number of filtered patient rows.                                       *)
NombresUnicos ==
  \A a, b \in DOMAIN gdf : gdf[a].dpto_cnmbr = gdf[b].dpto_cnmbr => a = b

SumaPacientes == Sum([j \in DOMAIN gdf_merge |-> Get(gdf_merge[j].Num_Pacientes)[1]])

C10_CountConservation ==
  (EnMapa /\ NombresUnicos) =>
    /\ \A j \in DOMAIN gdf_merge : Get(gdf_merge[j].Num_Pacientes)[2] = 1
    /\ SumaPacientes
         = Cardinality({i \in DOMAIN df :
                          /\ Sel(df[i])
                          /\ \E j \in DOMAIN gdf : gdf[j].dpto_cnmbr = df[i].Departamento})
    /\ SumaPacientes <= Cardinality({i \in DOMAIN df : Sel(df[i])})

C10_Witness ==
  /\ EnMapa
  /\ NombresUnicos
  /\ Len(gdf) = 2
  /\ SumaPacientes >= 1
  /\ SumaPacientes < Cardinality({i \in DOMAIN df : Sel(df[i])})

====
